---- MODULE Spec2Model ----
(***************************************************************************)
(* PIXIE image tool: configuration validation, the resize geometry of      *)
(* processors/resizer.rs, the single-item pipeline of core/processor.rs    *)
(* and the batch driver of processors/batch.rs.                            *)
(***************************************************************************)
EXTENDS Integers, Naturals, Sequences, FiniteSets, TLC

(***************************************************************************)
(* IEEE-754 single precision, as far as the resizer uses it.  A finite     *)
(* non-negative f32 is the record [m, e] standing for m / 2^e, kept with   *)
(* an odd m (or m = 0, e = 0).  Every operation rounds its exact result to *)
(* 24 significant bits, ties to even, as the hardware does.  Subnormals,   *)
(* infinities and NaN are outside the ranges used here.                    *)
(***************************************************************************)
RECURSIVE Pow2(_)
Pow2(n) == IF n <= 0 THEN 1 ELSE 2 * Pow2(n - 1)

TwoTo23 == Pow2(23)
TwoTo24 == Pow2(24)

RECURSIVE F32Canon(_)
F32Canon(a) ==
    IF a.m = 0 THEN [m |-> 0, e |-> 0]
    ELSE IF a.m % 2 = 0 THEN F32Canon([m |-> a.m \div 2, e |-> a.e - 1])
    ELSE a

RECURSIVE DropBits(_)
\* number of low bits that do not fit in a 24-bit significand
DropBits(m) == IF m < TwoTo24 THEN 0 ELSE 1 + DropBits(m \div 2)

\* the f32 nearest to the exact value m / 2^e, ties to even
F32Round(m, e) ==
    LET k    == DropBits(m)
        q    == m \div Pow2(k)
        rem  == m % Pow2(k)
        half == Pow2(k - 1)
        up   == k > 0 /\ (rem > half \/ (rem = half /\ q % 2 = 1))
    IN  F32Canon([m |-> IF up THEN q + 1 ELSE q, e |-> e - k])

\* `n as f32`
F32FromU32(n) == F32Round(n, 0)

\* a * b
F32Mul(a, b) == F32Round(a.m * b.m, a.e + b.e)

RECURSIVE LongDiv(_, _, _, _)
\* binary long division: quotient bits are produced until the quotient has
\* 24 significant bits; q is the quotient so far, r the remainder (r < b),
\* t the number of fraction bits produced
LongDiv(q, r, b, t) ==
    IF q >= TwoTo23 THEN [q |-> q, r |-> r, t |-> t]
    ELSE IF 2 * r >= b THEN LongDiv(2 * q + 1, 2 * r - b, b, t + 1)
    ELSE LongDiv(2 * q, 2 * r, b, t + 1)

\* a / b, b > 0
F32Div(a, b) ==
    IF a.m = 0 THEN [m |-> 0, e |-> 0]
    ELSE LET d  == LongDiv(a.m \div b.m, a.m % b.m, b.m, 0)
             up == 2 * d.r > b.m \/ (2 * d.r = b.m /\ d.q % 2 = 1)
         IN  F32Round(IF up THEN d.q + 1 ELSE d.q, a.e - b.e + d.t)

RECURSIVE F32Norm(_)
\* the same value with the significand shifted up into [2^23, 2^24)
F32Norm(a) ==
    IF a.m = 0 \/ a.m >= TwoTo23 THEN a
    ELSE F32Norm([m |-> 2 * a.m, e |-> a.e + 1])

\* a < b
F32Lt(a, b) ==
    LET x == F32Norm(a)
        y == F32Norm(b)
    IN  IF y.m = 0 THEN FALSE
        ELSE IF x.m = 0 THEN TRUE
        ELSE x.e > y.e \/ (x.e = y.e /\ x.m < y.m)

\* a.min(b)
F32Min(a, b) == IF F32Lt(b, a) THEN b ELSE a

\* a > 0.0
F32Positive(a) == a.m > 0

\* `a.round() as u32`: round half away from zero, then truncate
F32RoundToU32(a) ==
    IF a.e <= 0 THEN a.m * Pow2(0 - a.e)
    ELSE IF a.e > 30 THEN 0
    ELSE (a.m + Pow2(a.e - 1)) \div Pow2(a.e)

\* u32::max
Max(a, b) == IF a >= b THEN a ELSE b

(***************************************************************************)
(* processors/resizer.rs: target dimensions.                               *)
(***************************************************************************)
Absolute(w, h) == [kind |-> "Absolute", w |-> w, h |-> h, scale |-> [m |-> 0, e |-> 0]]
Scale(s)       == [kind |-> "Scale", w |-> 0, h |-> 0, scale |-> s]
Width(w)       == [kind |-> "Width", w |-> w, h |-> 0, scale |-> [m |-> 0, e |-> 0]]
Height(h)      == [kind |-> "Height", w |-> 0, h |-> h, scale |-> [m |-> 0, e |-> 0]]

F32Hundred == F32FromU32(100)

\* Resizer::preserve_aspect
preserve_aspect(orig_w, orig_h, target_w, target_h) ==
    IF target_w = 0 /\ target_h = 0 THEN <<orig_w, orig_h>>
    ELSE IF target_w = 0 THEN
        LET ratio == F32Div(F32FromU32(target_h), F32FromU32(orig_h))
            width == F32RoundToU32(F32Mul(F32FromU32(orig_w), ratio))
        IN  <<Max(width, 1), target_h>>
    ELSE IF target_h = 0 THEN
        LET ratio  == F32Div(F32FromU32(target_w), F32FromU32(orig_w))
            height == F32RoundToU32(F32Mul(F32FromU32(orig_h), ratio))
        IN  <<target_w, Max(height, 1)>>
    ELSE
        LET ratio_w == F32Div(F32FromU32(target_w), F32FromU32(orig_w))
            ratio_h == F32Div(F32FromU32(target_h), F32FromU32(orig_h))
            ratio   == F32Min(ratio_w, ratio_h)
            new_w   == F32RoundToU32(F32Mul(F32FromU32(orig_w), ratio))
            new_h   == F32RoundToU32(F32Mul(F32FromU32(orig_h), ratio))
        IN  <<Max(new_w, 1), Max(new_h, 1)>>

\* calculate_dimensions fitting the box whatever keep_aspect is
calculate_dimensionsAlwaysFit(orig_width, orig_height, mode, keep_aspect) ==
    CASE mode.kind = "Absolute" ->
            IF mode.w = 0 /\ mode.h = 0 THEN <<orig_width, orig_height>>
            ELSE preserve_aspect(orig_width, orig_height, mode.w, mode.h)
      [] mode.kind = "Scale" ->
            IF ~F32Positive(mode.scale) THEN <<orig_width, orig_height>>
            ELSE
                LET new_width  == F32RoundToU32(F32Div(F32Mul(F32FromU32(orig_width), mode.scale), F32Hundred))
                    new_height == F32RoundToU32(F32Div(F32Mul(F32FromU32(orig_height), mode.scale), F32Hundred))
                IN  <<Max(new_width, 1), Max(new_height, 1)>>
      [] mode.kind = "Width" ->
            IF mode.w = 0 \/ mode.w = orig_width THEN <<orig_width, orig_height>>
            ELSE
                LET ratio  == F32Div(F32FromU32(mode.w), F32FromU32(orig_width))
                    height == F32RoundToU32(F32Mul(F32FromU32(orig_height), ratio))
                IN  <<mode.w, Max(height, 1)>>
      [] mode.kind = "Height" ->
            IF mode.h = 0 \/ mode.h = orig_height THEN <<orig_width, orig_height>>
            ELSE
                LET ratio == F32Div(F32FromU32(mode.h), F32FromU32(orig_height))
                    width == F32RoundToU32(F32Mul(F32FromU32(orig_width), ratio))
                IN  <<Max(width, 1), mode.h>>

\* Resizer::calculate_dimensions
calculate_dimensions(orig_width, orig_height, mode, keep_aspect) ==
    CASE mode.kind = "Absolute" ->
            IF mode.w = 0 /\ mode.h = 0 THEN <<orig_width, orig_height>>
            ELSE IF keep_aspect THEN preserve_aspect(orig_width, orig_height, mode.w, mode.h)
            ELSE << IF mode.w = 0 THEN orig_width ELSE mode.w,
                    IF mode.h = 0 THEN orig_height ELSE mode.h >>
      [] mode.kind = "Scale" ->
            IF ~F32Positive(mode.scale) THEN <<orig_width, orig_height>>
            ELSE
                LET new_width  == F32RoundToU32(F32Div(F32Mul(F32FromU32(orig_width), mode.scale), F32Hundred))
                    new_height == F32RoundToU32(F32Div(F32Mul(F32FromU32(orig_height), mode.scale), F32Hundred))
                IN  <<Max(new_width, 1), Max(new_height, 1)>>
      [] mode.kind = "Width" ->
            IF mode.w = 0 \/ mode.w = orig_width THEN <<orig_width, orig_height>>
            ELSE
                LET ratio  == F32Div(F32FromU32(mode.w), F32FromU32(orig_width))
                    height == F32RoundToU32(F32Mul(F32FromU32(orig_height), ratio))
                IN  <<mode.w, Max(height, 1)>>
      [] mode.kind = "Height" ->
            IF mode.h = 0 \/ mode.h = orig_height THEN <<orig_width, orig_height>>
            ELSE
                LET ratio == F32Div(F32FromU32(mode.h), F32FromU32(orig_height))
                    width == F32RoundToU32(F32Mul(F32FromU32(orig_width), ratio))
                IN  <<Max(width, 1), mode.h>>

\* a resize that runs the resample pass whatever the target is
resizeAlwaysResamples(img, m, keep) ==
    CHOOSE r \in { [image |-> t, resampled |-> TRUE] :
                     t \in {calculate_dimensions(img[1], img[2], m, keep)} } : TRUE

\* Resizer::resize: the size it asks the image crate for and whether it
\* resamples.  resize_exact returns an image of exactly that size; resize, used
\* when keep_aspect is set, returns one fitted within it.
resize(img, m, keep) ==
    CHOOSE r \in { [image |-> (IF t = img THEN img ELSE t), resampled |-> (t # img)] :
                     t \in {calculate_dimensions(img[1], img[2], m, keep)} } : TRUE

\* Resizer::calculate_mode_from_config
calculate_mode_from_config(width, height, scale) ==
    IF F32Positive(scale) THEN Scale(scale)
    ELSE IF width > 0 /\ height > 0 THEN Absolute(width, height)
    ELSE IF width > 0 THEN Width(width)
    ELSE IF height > 0 THEN Height(height)
    ELSE Absolute(0, 0)

(***************************************************************************)
(* State.                                                                  *)
(***************************************************************************)
VARIABLES
    config,        \* the ProcessConfig handed to validate() or to a constructor
    vresult,       \* what validate() returned, "none" before the call
    image,         \* <<width, height>> of the image given to the Resizer
    mode,          \* the ResizeMode given to the Resizer
    keep_aspect,   \* Resizer.keep_aspect
    target,        \* what calculate_dimensions returned, <<0, 0>> before the call
    resized,       \* what Resizer::resize returned: the image's size and whether a
                   \* resample pass ran; NoResize before the call
    compressor,    \* Compressor.quality of the ImageProcessor
    proc,          \* the running ImageProcessor::process call: position, locals, log
    max_threads,   \* BatchProcessor.max_threads
    thread_pool,   \* BatchProcessor.thread_pool: None, or Some(number of threads)
    bpc,           \* where the BatchProcessor is: "none", "constructed", "new_failed",
                   \* "parallel" (process_directory is in its parallel section), "returned"
    args,          \* the arguments of process_directory: input_dir, output_dir, recursive;
                   \* walked: the entries its walk of input_dir met
    image_paths,   \* the collected inputs
    results,       \* per input: the finished pipeline call, or NoProc while there is none
    workers,       \* per pool thread: the index of the input it is processing, 0 if idle
    dispatched,    \* per input: how many times it was handed to the pipeline
    bcalls,        \* the filesystem accesses of process_directory itself
    ret,           \* what process_directory returned: result and stats
    gen            \* a generate_output_path call: its arguments, the working directory,
                   \* the files on disk, and the path it returned

cfgVars   == <<config, vresult>>
geoVars   == <<image, mode, keep_aspect, target, resized>>
procVars  == <<compressor, proc>>
batchVars == <<max_threads, thread_pool, bpc, args, image_paths, results, workers,
               dispatched, bcalls, ret>>
utilVars  == <<gen>>
vars      == <<config, vresult, image, mode, keep_aspect, target, resized, compressor, proc,
               max_threads, thread_pool, bpc, args, image_paths, results, workers,
               dispatched, bcalls, ret, gen>>

Contains(seq, x) == \E k \in DOMAIN seq : seq[k] = x

None    == [some |-> FALSE, v |-> 0]
Some(v) == [some |-> TRUE, v |-> v]

F32Zero == [m |-> 0, e |-> 0]
\* an f32 literal n / 2^k (n may be negative; only positive values are computed with)
F32Lit(n, k) == IF n <= 0 THEN [m |-> n, e |-> 0] ELSE F32Canon([m |-> n, e |-> k])

\* ProcessConfig::default
DefaultConfig ==
    [width |-> 0, height |-> 0, scale |-> F32Zero, quality |-> 85,
     keep_aspect |-> TRUE, strip_metadata |-> FALSE,
     max_file_size |-> None, format |-> "None"]

MaxDimension == 100000

(***************************************************************************)
(* core/mod.rs: ProcessConfig::validate.                                   *)
(***************************************************************************)
Ok == [ok |-> TRUE, kind |-> "Ok", msg |-> "", detail |-> <<"", "">>]
\* the path as an error message shows it
Display(path) == <<path.dir, path.name>>
NoName == <<"", "">>
\* an ImageToolError: its variant, the fixed text of its message, and the values
\* the message is formatted with (a path, or numbers as they are printed)
Err(kind, msg, detail) == [ok |-> FALSE, kind |-> kind, msg |-> msg, detail |-> detail]

\* validate() without the upper quality bound
validateNoUpperQuality(c) ==
    IF F32Positive(c.scale) /\ (c.width > 0 \/ c.height > 0)
    THEN Err("InvalidParameter", "Cannot specify both scale and width/height", NoName)
    ELSE IF c.width > MaxDimension \/ c.height > MaxDimension
    THEN Err("InvalidParameter", "Dimensions too large (max 100,000 pixels)", NoName)
    ELSE IF c.quality = 0
    THEN Err("InvalidParameter", "Quality must be between 1 and 100", NoName)
    ELSE Ok

validate(c) ==
    IF F32Positive(c.scale) /\ (c.width > 0 \/ c.height > 0)
    THEN Err("InvalidParameter", "Cannot specify both scale and width/height", NoName)
    ELSE IF c.width > MaxDimension \/ c.height > MaxDimension
    THEN Err("InvalidParameter", "Dimensions too large (max 100,000 pixels)", NoName)
    ELSE IF c.quality = 0 \/ c.quality > 100
    THEN Err("InvalidParameter", "Quality must be between 1 and 100", NoName)
    ELSE Ok

NotCalled == [ok |-> FALSE, kind |-> "none", msg |-> "", detail |-> <<"", "">>]

\* inert values of the state a specification does not use
IdleCfg == config = DefaultConfig /\ vresult = NotCalled
NoResize == [image |-> <<0, 0>>, resampled |-> FALSE]
IdleGeo ==
    /\ image = <<1, 1>>
    /\ mode = Absolute(0, 0)
    /\ keep_aspect = TRUE
    /\ target = <<0, 0>>
    /\ resized = NoResize

NoStats == [processed_count |-> 0, total_size_before |-> 0, total_size_after |-> 0, errors |-> <<>>]
NoPath  == [dir |-> "", name |-> "", kind |-> "plain", exists |-> FALSE]

\* a process call that has not been made
NoProc ==
    [pc |-> "none", input |-> NoPath, output |-> NoPath, original_size |-> 0,
     image |-> <<0, 0>>, output_format |-> "None", written |-> 0, steps |-> <<>>,
     calls |-> <<>>, result |-> NotCalled, stats |-> NoStats]

IdleProc == compressor = 0 /\ proc = NoProc

NoDir  == [name |-> "", kind |-> "plain", exists |-> FALSE, is_dir |-> FALSE]
NoArgs == [input_dir |-> NoDir, output_dir |-> NoDir, recursive |-> FALSE, walked |-> <<>>]
NoRet  == [result |-> NotCalled, stats |-> NoStats]

\* no generate_output_path call
NoGen ==
    [input |-> [dir |-> "", stem |-> "", ext |-> ""],
     output |-> [some |-> FALSE, path |-> [dir |-> "", name |-> ""]],
     suffix |-> "", timestamp |-> 0, cwd |-> "", files |-> {}, called |-> FALSE,
     returned |-> [dir |-> "", name |-> ""]]

IdleUtil == gen = NoGen

IdleBatch ==
    /\ max_threads = 0
    /\ thread_pool = None
    /\ bpc = "none"
    /\ args = NoArgs
    /\ image_paths = <<>>
    /\ results = <<>>
    /\ workers = <<>>
    /\ dispatched = <<>>
    /\ bcalls = <<>>
    /\ ret = NoRet

(***************************************************************************)
(* Specification of validate(): every config of ConfigInputs is validated  *)
(* once.                                                                   *)
(***************************************************************************)
ConfigWidths    == {0, 1, MaxDimension, MaxDimension + 1}
ConfigScales    == {F32Lit(-1, 0), F32Zero, F32Lit(50, 0)}
ConfigQualities == {0, 1, 85, 100, 101, 255}

ConfigInputs ==
    { [DefaultConfig EXCEPT !.width = w, !.height = h, !.scale = s, !.quality = q] :
        w \in ConfigWidths, h \in ConfigWidths, s \in ConfigScales, q \in ConfigQualities }

InitConfig ==
    /\ config \in ConfigInputs
    /\ vresult = NotCalled
    /\ IdleGeo
    /\ IdleProc
    /\ IdleBatch
    /\ IdleUtil

Validate ==
    /\ vresult = NotCalled
    /\ vresult' = validate(config)
    /\ UNCHANGED <<config, geoVars, procVars, batchVars, utilVars>>

NextConfig == Validate

SpecConfig == InitConfig /\ [][NextConfig]_vars

(***************************************************************************)
(* Specification of the Resizer's target computation: every image size and *)
(* mode of the input sets is given to calculate_dimensions once.           *)
(***************************************************************************)
MaxOrig   == 22
MaxTarget == 13

ExampleSizes == {200, 400}
OrigSizes    == (1 .. MaxOrig) \cup ExampleSizes
TargetSizes  == (0 .. MaxTarget) \cup {100}

\* Scale(percent) inputs: whole and fractional percentages
ScaleInputs ==
    { F32Lit(-1, 0), F32Zero, F32Lit(1, 0), F32Lit(25, 1), F32Lit(50, 0), F32Lit(100, 0),
      F32Lit(150, 0), F32Lit(200, 0), F32Lit(24787, 8) }
\* image sizes given to Scale: the small ones and a few hundred pixels
ScaleOrigSizes == (1 .. MaxOrig) \cup ExampleSizes \cup {677}

\* one-pixel strips whose long axis is the first u32 that `as f32` changes,
\* given only to the single-dimension modes that ask for their short axis
LongImages == {<<1, TwoTo24 + 1>>, <<TwoTo24 + 1, 1>>}
LongModes  == {Absolute(1, 0), Absolute(0, 1), Width(1), Height(1)}

\* one-pixel strips as long as the loader's dimension gate lets through, given
\* only to the modes that double them
StripImages == {<<1, MaxDimension>>, <<MaxDimension, 1>>}
StripModes  == {Absolute(2, 0), Absolute(0, 2), Scale(F32Lit(200, 0))}

\* a narrow image and a box it is enlarged into, the box height just below
\* 2^23, where an f32 has one fraction bit left
UpscaleImages == {<<1, 32000>>}
UpscaleModes  == {Absolute(TwoTo24, TwoTo23 - 1)}

ModeInputs ==
    { Absolute(w, h) : w \in TargetSizes, h \in TargetSizes }
    \cup UpscaleModes
    \cup { Scale(s) : s \in ScaleInputs }
    \cup { Width(w) : w \in TargetSizes }
    \cup { Height(h) : h \in TargetSizes }

InitGeometry ==
    /\ IdleCfg
    /\ IdleProc
    /\ IdleBatch
    /\ keep_aspect \in BOOLEAN
    /\ mode \in ModeInputs
    /\ image \in IF mode \in UpscaleModes THEN UpscaleImages
                 ELSE (IF mode.kind = "Scale"
                       THEN ScaleOrigSizes \X ScaleOrigSizes
                       ELSE OrigSizes \X OrigSizes)
                      \cup (IF mode \in LongModes THEN LongImages ELSE {})
                      \cup (IF mode \in StripModes THEN StripImages ELSE {})
    /\ target = <<0, 0>>
    /\ resized = NoResize
    /\ IdleUtil

\* Resizer::calculate_dimensions applied to the image, as Resizer::resize does first
CalculateDimensions ==
    /\ target = <<0, 0>>
    /\ target' = calculate_dimensions(image[1], image[2], mode, keep_aspect)
    /\ UNCHANGED <<image, mode, keep_aspect, resized, cfgVars, procVars, batchVars, utilVars>>

\* Resizer::resize after its target computation: pass-through or resample
ResizeImage ==
    /\ target # <<0, 0>>
    /\ resized = NoResize
    /\ resized' = resize(image, mode, keep_aspect)
    /\ UNCHANGED <<image, mode, keep_aspect, target, cfgVars, procVars, batchVars, utilVars>>

NextGeometry ==
    \/ CalculateDimensions
    \/ ResizeImage

SpecGeometry == InitGeometry /\ [][NextGeometry]_vars

(***************************************************************************)
(* core/processor.rs: the single-item pipeline.  A path is its file name   *)
(* and what its string form looks like: "plain", "traversal" (it has a     *)
(* component ".."), or "dotted" (two consecutive dots inside a name, as in *)
(* a..b.jpg), and whether a file is there when process is called.  What    *)
(* the filesystem and the codecs answer is an argument of each step.       *)
(***************************************************************************)
\* path.to_string_lossy().contains("..")
ContainsDotDot(path) == path.kind \in {"traversal", "dotted"}

Fail(p, err) == [p EXCEPT !.pc = "done", !.result = err]

\* validate_paths with the existence check made before the traversal checks
StepValidatePathsExistsFirst(p, exists, mkdirOk) ==
    LET q == [p EXCEPT !.steps = Append(@, "validate_paths"),
                       !.calls = Append(@, "exists(input)")]
    IN  IF ~exists
        THEN Fail(q, Err("InvalidParameter", "Input file does not exist", Display(q.input)))
        ELSE IF ContainsDotDot(q.input)
        THEN Fail(q, Err("SecurityError", "Path traversal detected in input path", NoName))
        ELSE IF ContainsDotDot(q.output)
        THEN Fail(q, Err("SecurityError", "Path traversal detected in output path", NoName))
        ELSE IF ~mkdirOk
        THEN Fail([q EXCEPT !.calls = Append(@, "create_dir_all(parent)")],
                  Err("Io", "IO error", NoName))
        ELSE [q EXCEPT !.calls = Append(@, "create_dir_all(parent)"), !.pc = "size_gate"]

\* validate_paths creating the output's parent directories before it looks for the input
StepValidatePathsMkdirFirst(p, exists, mkdirOk) ==
    LET q == [p EXCEPT !.steps = Append(@, "validate_paths")]
    IN  IF ContainsDotDot(q.input)
        THEN Fail(q, Err("SecurityError", "Path traversal detected in input path", NoName))
        ELSE IF ContainsDotDot(q.output)
        THEN Fail(q, Err("SecurityError", "Path traversal detected in output path", NoName))
        ELSE IF ~mkdirOk
        THEN Fail([q EXCEPT !.calls = Append(@, "create_dir_all(parent)")],
                  Err("Io", "IO error", NoName))
        ELSE IF ~exists
        THEN Fail([q EXCEPT !.calls = @ \o <<"create_dir_all(parent)", "exists(input)">>],
                  Err("InvalidParameter", "Input file does not exist", Display(q.input)))
        ELSE [q EXCEPT !.calls = @ \o <<"create_dir_all(parent)", "exists(input)">>,
                       !.pc = "size_gate"]

\* ImageProcessor::validate_paths; exists: input_path.exists(), mkdirOk: create_dir_all succeeds
StepValidatePaths(p, exists, mkdirOk) ==
    LET q == [p EXCEPT !.steps = Append(@, "validate_paths")]
    IN  IF ContainsDotDot(q.input)
        THEN Fail(q, Err("SecurityError", "Path traversal detected in input path", NoName))
        ELSE IF ContainsDotDot(q.output)
        THEN Fail(q, Err("SecurityError", "Path traversal detected in output path", NoName))
        ELSE IF ~exists
        THEN Fail([q EXCEPT !.calls = Append(@, "exists(input)")],
                  Err("InvalidParameter", "Input file does not exist", Display(q.input)))
        ELSE IF ~mkdirOk
        THEN Fail([q EXCEPT !.calls = @ \o <<"exists(input)", "create_dir_all(parent)">>],
                  Err("Io", "IO error", NoName))
        ELSE [q EXCEPT !.calls = @ \o <<"exists(input)", "create_dir_all(parent)">>,
                       !.pc = "size_gate"]

\* the size gate rejecting a file of exactly the limit
StepSizeGateInclusive(p, cfg, statOk, size) ==
    LET q == [p EXCEPT !.steps = Append(@, "size_gate"),
                       !.calls = Append(@, "metadata(input)")]
    IN  IF ~statOk THEN Fail(q, Err("Io", "IO error", NoName))
        ELSE IF cfg.max_file_size.some /\ size >= cfg.max_file_size.v
        THEN Fail([q EXCEPT !.original_size = size],
                  Err("MemoryLimitExceeded", "File size exceeds limit",
                      <<ToString(size), ToString(cfg.max_file_size.v)>>))
        ELSE [q EXCEPT !.original_size = size, !.pc = "load"]

\* process_single, the size gate; statOk: fs::metadata(input) succeeds, size: its len()
StepSizeGate(p, cfg, statOk, size) ==
    LET q == [p EXCEPT !.steps = Append(@, "size_gate"),
                       !.calls = Append(@, "metadata(input)")]
    IN  IF ~statOk THEN Fail(q, Err("Io", "IO error", NoName))
        ELSE IF cfg.max_file_size.some /\ size > cfg.max_file_size.v
        THEN Fail([q EXCEPT !.original_size = size],
                  Err("MemoryLimitExceeded", "File size exceeds limit",
                      <<ToString(size), ToString(cfg.max_file_size.v)>>))
        ELSE [q EXCEPT !.original_size = size, !.pc = "load"]

\* Loader::new
LoaderMaxDimensions == <<MaxDimension, MaxDimension>>

\* load whose decode error is recorded while the pipeline goes on
StepLoadGoesOn(p, decodeOk, dims) ==
    LET q == [p EXCEPT !.steps = Append(@, "load"), !.calls = Append(@, "load")]
    IN  IF q.original_size = 0
        THEN Fail(q, Err("InvalidParameter", "File is empty", Display(q.input)))
        ELSE IF ~decodeOk
        THEN [q EXCEPT !.calls = Append(@, "decode"), !.pc = "strip",
                       !.result = Err("ProcessingError", "Failed to decode image", NoName)]
        ELSE IF dims[1] > LoaderMaxDimensions[1] \/ dims[2] > LoaderMaxDimensions[2]
        THEN Fail([q EXCEPT !.calls = Append(@, "decode")],
                  Err("MemoryLimitExceeded", "Image dimensions exceed maximum",
                      <<ToString(dims[1]), ToString(dims[2])>>))
        ELSE [q EXCEPT !.calls = Append(@, "decode"), !.image = dims, !.pc = "strip"]

\* load without the gate on the decoded dimensions
StepLoadNoDimensionGate(p, decodeOk, dims) ==
    LET q == [p EXCEPT !.steps = Append(@, "load"), !.calls = Append(@, "load")]
    IN  IF q.original_size = 0
        THEN Fail(q, Err("InvalidParameter", "File is empty", Display(q.input)))
        ELSE IF ~decodeOk
        THEN Fail([q EXCEPT !.calls = Append(@, "decode")],
                  Err("ProcessingError", "Failed to decode image", NoName))
        ELSE [q EXCEPT !.calls = Append(@, "decode"), !.image = dims, !.pc = "strip"]

\* Loader::load; decodeOk: the decoder accepts the file, dims: the decoded size
StepLoad(p, decodeOk, dims) ==
    LET q == [p EXCEPT !.steps = Append(@, "load"), !.calls = Append(@, "load")]
    IN  IF q.original_size = 0
        THEN Fail(q, Err("InvalidParameter", "File is empty", Display(q.input)))
        ELSE IF ~decodeOk
        THEN Fail([q EXCEPT !.calls = Append(@, "decode")],
                  Err("ProcessingError", "Failed to decode image", NoName))
        ELSE IF dims[1] > LoaderMaxDimensions[1] \/ dims[2] > LoaderMaxDimensions[2]
        THEN Fail([q EXCEPT !.calls = Append(@, "decode")],
                  Err("MemoryLimitExceeded", "Image dimensions exceed maximum",
                      <<ToString(dims[1]), ToString(dims[2])>>))
        ELSE [q EXCEPT !.calls = Append(@, "decode"), !.image = dims, !.pc = "strip"]

\* process_single, the metadata strip (MetadataProcessor::strip_metadata never fails)
StepStrip(p, cfg) ==
    IF cfg.strip_metadata
    THEN [p EXCEPT !.steps = Append(@, "strip"), !.calls = Append(@, "strip_metadata"),
                   !.pc = "resize"]
    ELSE [p EXCEPT !.pc = "resize"]

\* a resize step that invokes the resizer whatever the config is
StepResizeAlways(p, cfg, keep) ==
    LET m == IF F32Positive(cfg.scale) THEN Scale(cfg.scale)
             ELSE Absolute(cfg.width, cfg.height)
        r == resize(p.image, m, keep)
    IN  [p EXCEPT !.steps = Append(@, "resize"),
                  !.calls = @ \o (IF r.resampled THEN <<"resize", "resample">> ELSE <<"resize">>),
                  !.image = r.image,
                  !.pc = "format"]

\* process_single, the resize step; keep is Resizer.keep_aspect
StepResize(p, cfg, keep) ==
    IF cfg.width > 0 \/ cfg.height > 0 \/ F32Positive(cfg.scale)
    THEN LET m == IF F32Positive(cfg.scale) THEN Scale(cfg.scale)
                  ELSE Absolute(cfg.width, cfg.height)
             r == resize(p.image, m, keep)
         IN  [p EXCEPT !.steps = Append(@, "resize"),
                       !.calls = @ \o (IF r.resampled THEN <<"resize", "resample">> ELSE <<"resize">>),
                       !.image = r.image,
                       !.pc = "format"]
    ELSE [p EXCEPT !.pc = "format"]

\* a format selection that consults the detection whatever the config names
StepFormatDetectsAlways(p, cfg, detected) ==
    LET q == [p EXCEPT !.steps = Append(@, "format"), !.calls = Append(@, "detect_format")]
    IN  IF detected = "None"
        THEN Fail(q, Err("ProcessingError", "Failed to detect format for", Display(q.input)))
        ELSE IF cfg.format \in {"Jpeg", "Png", "WebP"}
        THEN [q EXCEPT !.output_format = cfg.format, !.pc = "encode"]
        ELSE [q EXCEPT !.output_format = detected, !.pc = "encode"]

\* process_single, the output format; detected: what Loader::detect_format finds
\* from the input path, "None" when it fails
StepFormat(p, cfg, detected) ==
    LET q == [p EXCEPT !.steps = Append(@, "format")]
    IN  IF cfg.format \in {"Jpeg", "Png", "WebP"}
        THEN [q EXCEPT !.output_format = cfg.format, !.pc = "encode"]
        ELSE IF detected = "None"
        THEN Fail([q EXCEPT !.calls = Append(@, "detect_format")],
                  Err("ProcessingError", "Failed to detect format for", Display(q.input)))
        ELSE [q EXCEPT !.calls = Append(@, "detect_format"),
                       !.output_format = detected, !.pc = "encode"]

\* Compressor::save_with_format; outcome: "Ok" or the kind of error it returns,
\* size: the length of the file it leaves at the output path
StepEncode(p, outcome, size) ==
    LET q == [p EXCEPT !.steps = Append(@, "encode"),
                       !.calls = Append(@, "save_with_format")]
    IN  IF outcome = "Ok" THEN [q EXCEPT !.written = size, !.pc = "stats"]
        ELSE Fail(q, Err(outcome, "encode failed", NoName))

\* statistics with the two sizes exchanged
StepStatsSwapped(p, statOk) ==
    LET q == [p EXCEPT !.steps = Append(@, "stats"),
                       !.calls = Append(@, "metadata(output)")]
    IN  IF ~statOk THEN Fail(q, Err("Io", "IO error", NoName))
        ELSE [q EXCEPT !.pc = "done", !.result = Ok,
                       !.stats = [processed_count |-> 1, total_size_before |-> q.written,
                                  total_size_after |-> q.original_size, errors |-> <<>>]]

\* process_single, the statistics; statOk: fs::metadata(output) succeeds, its
\* len() is the length of the file the encoder left
StepStats(p, statOk) ==
    LET q == [p EXCEPT !.steps = Append(@, "stats"),
                       !.calls = Append(@, "metadata(output)")]
    IN  IF ~statOk THEN Fail(q, Err("Io", "IO error", NoName))
        ELSE [q EXCEPT !.pc = "done", !.result = Ok,
                       !.stats = [processed_count |-> 1, total_size_before |-> q.original_size,
                                  total_size_after |-> q.written, errors |-> <<>>]]

\* a Compressor that keeps the quality it is given
CompressorNewAsGiven(quality) == quality

\* Compressor::new
CompressorNew(quality) == IF quality < 1 THEN 1 ELSE IF quality > 100 THEN 100 ELSE quality

\* the errors save_with_format can return for a format
EncodeOutcomes(format) ==
    {"Ok", "Io", "Image"}
    \cup (IF format = "WebP" THEN {"UnsupportedFormat"} ELSE {})
    \cup (IF format = "Png" THEN {"ProcessingError"} ELSE {})

(***************************************************************************)
(* Specification of one ImageProcessor: new(config), then one call of      *)
(* process(input, output) taken step by step.                              *)
(***************************************************************************)
SizeLimit == 2

\* quality is a u8: the bounds of the accepted range and values above it
EdgeQualities == {1, 100, 101, 255}

PipelineConfigs ==
    { [width |-> w, height |-> h, scale |-> s, quality |-> q, keep_aspect |-> k,
       strip_metadata |-> sm, max_file_size |-> mfs, format |-> f] :
        w \in {0, 7}, h \in {0, 13}, s \in {F32Lit(-1, 0), F32Zero, F32Lit(50, 0)}, q \in {0, 85},
        k \in BOOLEAN, sm \in BOOLEAN, mfs \in {None, Some(SizeLimit)},
        f \in {"None", "Jpeg", "Png", "WebP", "SameAsInput"} }
    \cup { [DefaultConfig EXCEPT !.quality = q] : q \in EdgeQualities }

PathKinds    == {"plain", "traversal", "dotted"}
FileSizes    == 0 .. (SizeLimit + 1)
DecodedSizes == {<<1, 1>>, <<11, 22>>, <<400, 200>>, <<MaxDimension + 1, 1>>, <<1, MaxDimension + 1>>}
WrittenSizes == 1 .. (SizeLimit + 1)
Detected     == {"None", "Jpeg", "Png", "Gif"}

\* ImageProcessor::new: no validation, the config is stored as given
New ==
    /\ proc.pc = "none"
    /\ bpc = "none"
    /\ \E c \in PipelineConfigs :
        /\ config' = c
        /\ keep_aspect' = c.keep_aspect
        /\ compressor' = CompressorNew(c.quality)
    /\ proc' = [proc EXCEPT !.pc = "constructed"]
    /\ UNCHANGED <<vresult, image, mode, target, resized, batchVars, utilVars>>

\* ImageProcessor::process is called
Process ==
    /\ proc.pc = "constructed"
    /\ \E ik \in PathKinds, ok \in PathKinds, ie \in BOOLEAN, oe \in BOOLEAN :
        proc' = [proc EXCEPT !.pc = "validate_paths",
                             !.input = [dir |-> "in", name |-> "a.jpg", kind |-> ik, exists |-> ie],
                             !.output = [dir |-> "out", name |-> "out.jpg", kind |-> ok, exists |-> oe]]
    /\ UNCHANGED <<cfgVars, geoVars, compressor, batchVars, utilVars>>

ValidatePaths ==
    /\ proc.pc = "validate_paths"
    /\ \E mkdirOk \in BOOLEAN :
        proc' = StepValidatePaths(proc, proc.input.exists, mkdirOk)
    /\ UNCHANGED <<cfgVars, geoVars, compressor, batchVars, utilVars>>

SizeGate ==
    /\ proc.pc = "size_gate"
    /\ \E statOk \in BOOLEAN, size \in FileSizes :
        proc' = StepSizeGate(proc, config, statOk, size)
    /\ UNCHANGED <<cfgVars, geoVars, compressor, batchVars, utilVars>>

Load ==
    /\ proc.pc = "load"
    /\ \E decodeOk \in BOOLEAN, dims \in DecodedSizes :
        proc' = StepLoad(proc, decodeOk, dims)
    /\ UNCHANGED <<cfgVars, geoVars, compressor, batchVars, utilVars>>

StripMetadata ==
    /\ proc.pc = "strip"
    /\ proc' = StepStrip(proc, config)
    /\ UNCHANGED <<cfgVars, geoVars, compressor, batchVars, utilVars>>

Resize ==
    /\ proc.pc = "resize"
    /\ proc' = StepResize(proc, config, keep_aspect)
    /\ UNCHANGED <<cfgVars, geoVars, compressor, batchVars, utilVars>>

SelectFormat ==
    /\ proc.pc = "format"
    /\ \E detected \in Detected :
        proc' = StepFormat(proc, config, detected)
    /\ UNCHANGED <<cfgVars, geoVars, compressor, batchVars, utilVars>>

Encode ==
    /\ proc.pc = "encode"
    /\ \E outcome \in EncodeOutcomes(proc.output_format), size \in WrittenSizes :
        proc' = StepEncode(proc, outcome, size)
    /\ UNCHANGED <<cfgVars, geoVars, compressor, batchVars, utilVars>>

ComputeStats ==
    /\ proc.pc = "stats"
    /\ \E statOk \in BOOLEAN :
        proc' = StepStats(proc, statOk)
    /\ UNCHANGED <<cfgVars, geoVars, compressor, batchVars, utilVars>>

InitSingle ==
    /\ IdleCfg
    /\ IdleGeo
    /\ IdleProc
    /\ IdleBatch
    /\ IdleUtil

NextSingle ==
    \/ New
    \/ Process
    \/ ValidatePaths
    \/ SizeGate
    \/ Load
    \/ StripMetadata
    \/ Resize
    \/ SelectFormat
    \/ Encode
    \/ ComputeStats

SpecSingle == InitSingle /\ [][NextSingle]_vars

(***************************************************************************)
(* processors/batch.rs: the batch driver.                                  *)
(***************************************************************************)
MaxThreads      == 2
DefaultPoolSize == 2
MaxEntries      == 3

\* what a directory walk can meet: files with the facts the pipeline will find
\* (size, whether the file decodes, its decoded size, the format its extension
\* names, how encoding its output ends, the size of the written output) and a
\* subdirectory
Entry(dir, name, depth, is_file, ext, kind, size, decodable, dims, detected, encode, out_size) ==
    [dir |-> dir, name |-> name, depth |-> depth, is_file |-> is_file, ext |-> ext,
     kind |-> kind, size |-> size, decodable |-> decodable, dims |-> dims,
     detected |-> detected, encode |-> encode, out_size |-> out_size]

EntryGood    == Entry("in", "a.jpg", 1, TRUE, "jpg", "plain", 2, TRUE, <<400, 200>>, "Jpeg", "Ok", 1)
EntryBig     == Entry("in", "b.PNG", 1, TRUE, "PNG", "plain", SizeLimit + 1, TRUE, <<11, 22>>, "Png", "Ok", 2)
EntryCorrupt == Entry("in", "c.jpeg", 1, TRUE, "jpeg", "plain", 1, FALSE, <<0, 0>>, "Jpeg", "Ok", 0)
EntryDeep    == Entry("in/sub", "a.jpg", 2, TRUE, "jpg", "plain", SizeLimit + 1, TRUE, <<11, 22>>, "Jpeg", "Ok", 1)
EntryDotted  == Entry("in", "d..e.jpg", 1, TRUE, "jpg", "dotted", 1, TRUE, <<11, 22>>, "Jpeg", "Ok", 1)
EntryNotes   == Entry("in", "notes.txt", 1, TRUE, "txt", "plain", 1, FALSE, <<0, 0>>, "None", "Ok", 0)
EntryReadme  == Entry("in", "README", 1, TRUE, "", "plain", 1, FALSE, <<0, 0>>, "None", "Ok", 0)
EntrySubdir  == Entry("in", "sub", 1, FALSE, "", "plain", 0, FALSE, <<0, 0>>, "None", "Ok", 0)

FsEntries ==
    {EntryGood, EntryBig, EntryCorrupt, EntryDeep, EntryDotted, EntryNotes, EntryReadme, EntrySubdir}

\* two orders in which the filesystem can list the entries, a directory before
\* what it holds
Listings ==
    { <<EntryGood, EntryBig, EntryCorrupt, EntryDotted, EntryNotes, EntryReadme, EntrySubdir, EntryDeep>>,
      <<EntrySubdir, EntryDeep, EntryReadme, EntryNotes, EntryDotted, EntryCorrupt, EntryBig, EntryGood>> }

Position(listing, e) == CHOOSE k \in DOMAIN listing : listing[k] = e

\* the walks: up to MaxEntries different entries in the order of a listing, a
\* file of the subdirectory only after the subdirectory
Walks ==
    { w \in UNION { [1 .. n -> FsEntries] : n \in 0 .. MaxEntries } :
        /\ \E listing \in Listings :
              \A i, j \in DOMAIN w : i < j => Position(listing, w[i]) < Position(listing, w[j])
        /\ \A i \in DOMAIN w : w[i].depth = 2 => \E j \in 1 .. (i - 1) : w[j] = EntrySubdir }

\* the configs of the batches: a stretch to 7x13 with a size limit, and one
\* that validate() rejects
BatchConfigs ==
    { [DefaultConfig EXCEPT !.width = 7, !.height = 13, !.keep_aspect = FALSE,
                            !.max_file_size = Some(SizeLimit)],
      [DefaultConfig EXCEPT !.quality = 0] }

InputDirs ==
    { [name |-> "in", kind |-> k, exists |-> e, is_dir |-> d] :
        k \in PathKinds, e \in BOOLEAN, d \in BOOLEAN } \ 
    { [name |-> "in", kind |-> k, exists |-> FALSE, is_dir |-> TRUE] : k \in PathKinds }

\* the output directories: the input directory itself, its subdirectory, and a
\* directory out beside it
OutputDirs(input_dir) ==
    {input_dir} \cup
    {[name |-> "in/sub", kind |-> "plain", exists |-> TRUE, is_dir |-> TRUE]} \cup
    ({ [name |-> "out", kind |-> k, exists |-> e, is_dir |-> d] :
        k \in PathKinds, e \in BOOLEAN, d \in BOOLEAN } \ 
     { [name |-> "out", kind |-> k, exists |-> FALSE, is_dir |-> TRUE] : k \in PathKinds })

\* validate_paths without the test for identical directories
BatchValidatePathsNoAlias(input_dir, output_dir) ==
    IF ContainsDotDot(input_dir)
    THEN [result |-> Err("SecurityError", "Path traversal detected in input path", NoName),
          calls |-> <<>>]
    ELSE IF ContainsDotDot(output_dir)
    THEN [result |-> Err("SecurityError", "Path traversal detected in output path", NoName),
          calls |-> <<>>]
    ELSE IF ~input_dir.exists
    THEN [result |-> Err("InvalidParameter", "Input directory does not exist", <<"", input_dir.name>>),
          calls |-> <<"exists(input_dir)">>]
    ELSE IF ~input_dir.is_dir
    THEN [result |-> Err("InvalidParameter", "Input path is not a directory", <<"", input_dir.name>>),
          calls |-> <<"exists(input_dir)", "is_dir(input_dir)">>]
    ELSE IF output_dir.exists /\ ~output_dir.is_dir
    THEN [result |-> Err("InvalidParameter", "Output path exists but is not a directory", <<"", output_dir.name>>),
          calls |-> <<"exists(input_dir)", "is_dir(input_dir)", "exists(output_dir)", "is_dir(output_dir)">>]
    ELSE [result |-> Ok,
          calls |-> <<"exists(input_dir)", "is_dir(input_dir)", "exists(output_dir)">>
                    \o (IF output_dir.exists THEN <<"is_dir(output_dir)">> ELSE <<>>)]

\* BatchProcessor::validate_paths: the result and the filesystem accesses made
BatchValidatePaths(input_dir, output_dir) ==
    IF ContainsDotDot(input_dir)
    THEN [result |-> Err("SecurityError", "Path traversal detected in input path", NoName),
          calls |-> <<>>]
    ELSE IF ContainsDotDot(output_dir)
    THEN [result |-> Err("SecurityError", "Path traversal detected in output path", NoName),
          calls |-> <<>>]
    ELSE IF ~input_dir.exists
    THEN [result |-> Err("InvalidParameter", "Input directory does not exist", <<"", input_dir.name>>),
          calls |-> <<"exists(input_dir)">>]
    ELSE IF ~input_dir.is_dir
    THEN [result |-> Err("InvalidParameter", "Input path is not a directory", <<"", input_dir.name>>),
          calls |-> <<"exists(input_dir)", "is_dir(input_dir)">>]
    ELSE IF output_dir.exists /\ ~output_dir.is_dir
    THEN [result |-> Err("InvalidParameter", "Output path exists but is not a directory", <<"", output_dir.name>>),
          calls |-> <<"exists(input_dir)", "is_dir(input_dir)", "exists(output_dir)", "is_dir(output_dir)">>]
    ELSE IF input_dir = output_dir
    THEN [result |-> Err("InvalidParameter", "Input and output directories cannot be the same", NoName),
          calls |-> <<"exists(input_dir)", "is_dir(input_dir)", "exists(output_dir)", "is_dir(output_dir)">>]
    ELSE [result |-> Ok,
          calls |-> <<"exists(input_dir)", "is_dir(input_dir)", "exists(output_dir)">>
                    \o (IF output_dir.exists THEN <<"is_dir(output_dir)">> ELSE <<>>)]

ImageExtensions == {"jpg", "jpeg", "png", "gif", "bmp", "tiff", "tif", "webp"}

\* str::to_lowercase on the extensions that occur
ToLowercase(ext) ==
    CASE ext = "JPG" -> "jpg"
      [] ext = "PNG" -> "png"
      [] ext = "TXT" -> "txt"
      [] OTHER -> ext

\* collect_image_paths without the extension filter
CollectImagePathsAnyFile(walk, rec) ==
    LET Keep(e) == /\ (rec \/ e.depth <= 1)
                   /\ e.is_file
    IN  SelectSeq(walk, Keep)

\* collect_image_paths comparing the extension as it is spelled
CollectImagePathsCaseSensitive(walk, rec) ==
    LET Keep(e) == /\ (rec \/ e.depth <= 1)
                   /\ e.is_file
                   /\ e.ext # ""
                   /\ e.ext \in ImageExtensions
    IN  SelectSeq(walk, Keep)

\* BatchProcessor::collect_image_paths on a walk
CollectImagePaths(walk, rec) ==
    LET Keep(e) == /\ (rec \/ e.depth <= 1)
                   /\ e.is_file
                   /\ e.ext # ""
                   /\ ToLowercase(e.ext) \in ImageExtensions
    IN  SelectSeq(walk, Keep)

\* one call of ImageProcessor::process taken to its end for a file f: the
\* steps in turn, each on what the step before it left
RunPipeline(cfg, keep, input, output, f) ==
    LET p0 == [NoProc EXCEPT !.pc = "validate_paths", !.input = input, !.output = output]
        s1 == { StepValidatePaths(p0, p0.input.exists, TRUE) }
        s2 == { IF p.pc = "size_gate" THEN StepSizeGate(p, cfg, TRUE, f.size) ELSE p : p \in s1 }
        s3 == { IF p.pc = "load" THEN StepLoad(p, f.decodable, f.dims) ELSE p : p \in s2 }
        s4 == { IF p.pc = "strip" THEN StepStrip(p, cfg) ELSE p : p \in s3 }
        s5 == { IF p.pc = "resize" THEN StepResize(p, cfg, keep) ELSE p : p \in s4 }
        s6 == { IF p.pc = "format" THEN StepFormat(p, cfg, f.detected) ELSE p : p \in s5 }
        s7 == { IF p.pc = "encode" THEN StepEncode(p, f.encode, f.out_size) ELSE p : p \in s6 }
        s8 == { IF p.pc = "stats" THEN StepStats(p, TRUE) ELSE p : p \in s7 }
    IN  CHOOSE p \in s8 : TRUE

\* process_single_image_in_batch keeping the subdirectory in the output name
ProcessSingleImageInBatchKeepTree(f, output_dir, cfg) ==
    IF f.name = ""
    THEN Fail(NoProc, Err("InvalidParameter", "Invalid file name", <<f.dir, f.name>>))
    ELSE RunPipeline(cfg, cfg.keep_aspect,
                     [dir |-> f.dir, name |-> f.name, kind |-> f.kind, exists |-> TRUE],
                     [dir |-> output_dir.name, name |-> IF f.depth > 1 THEN "sub/a.jpg" ELSE f.name,
                      kind |-> f.kind, exists |-> FALSE], f)

\* BatchProcessor::process_single_image_in_batch
ProcessSingleImageInBatch(f, output_dir, cfg) ==
    IF f.name = ""
    THEN Fail(NoProc, Err("InvalidParameter", "Invalid file name", <<f.dir, f.name>>))
    ELSE RunPipeline(cfg, cfg.keep_aspect,
                     [dir |-> f.dir, name |-> f.name, kind |-> f.kind, exists |-> TRUE],
                     [dir |-> output_dir.name, name |-> f.name, kind |-> f.kind, exists |-> FALSE], f)

\* an aggregation that stops at the first failed item
RECURSIVE AggregateFailFast(_, _)
AggregateFailFast(rs, stats) ==
    IF rs = <<>> THEN stats
    ELSE LET r == Head(rs)
         IN  IF r.result.ok
             THEN AggregateFailFast(Tail(rs),
                    [stats EXCEPT !.processed_count = @ + r.stats.processed_count,
                                  !.total_size_before = @ + r.stats.total_size_before,
                                  !.total_size_after = @ + r.stats.total_size_after])
             ELSE [stats EXCEPT !.errors =
                     Append(@, <<"Processing error", <<r.result.kind, r.result.msg, r.result.detail>> >>)]

\* an aggregation that puts each new failure record in front of the earlier ones
RECURSIVE AggregateNewestFirst(_, _)
AggregateNewestFirst(rs, stats) ==
    IF rs = <<>> THEN stats
    ELSE LET r == Head(rs)
         IN  AggregateNewestFirst(Tail(rs),
                IF r.result.ok
                THEN [stats EXCEPT !.processed_count = @ + r.stats.processed_count,
                                   !.total_size_before = @ + r.stats.total_size_before,
                                   !.total_size_after = @ + r.stats.total_size_after]
                ELSE [stats EXCEPT !.errors =
                        <<<<"Processing error", <<r.result.kind, r.result.msg, r.result.detail>> >> >> \o @])

\* process_directory, the aggregation loop over the collected results
RECURSIVE Aggregate(_, _)
Aggregate(rs, stats) ==
    IF rs = <<>> THEN stats
    ELSE LET r == Head(rs)
         IN  Aggregate(Tail(rs),
                IF r.result.ok
                THEN [stats EXCEPT !.processed_count = @ + r.stats.processed_count,
                                   !.total_size_before = @ + r.stats.total_size_before,
                                   !.total_size_after = @ + r.stats.total_size_after]
                ELSE [stats EXCEPT !.errors =
                        Append(@, <<"Processing error", <<r.result.kind, r.result.msg, r.result.detail>> >>)])

\* a parallel iterator that always runs on the global pool
PoolSizeGlobal(pool) == DefaultPoolSize

\* the threads that run the parallel iterator: the dedicated pool or the global one
PoolSize(pool) == IF pool.some THEN pool.v ELSE DefaultPoolSize

\* an index stays claimable until its result is there
ClaimableUntilDone(i) == results[i].pc # "done"

\* the parallel iterator hands every index to one thread only
Claimable(i) == dispatched[i] = 0

\* a collect() that waits for a successful result of every index
AllCollectedOk == \A i \in DOMAIN results : results[i].pc = "done" /\ results[i].result.ok

\* a collect() that hands over as soon as one result is there
AnyCollected == \E i \in DOMAIN results : results[i].pc = "done"

\* collect() of the parallel iterator is complete when every index has its result
AllCollected == \A i \in DOMAIN results : results[i].pc = "done"

\* BatchProcessor::new
BatchNew ==
    /\ bpc = "none"
    /\ proc.pc = "none"
    /\ \E c \in BatchConfigs, n \in 0 .. MaxThreads, buildOk \in BOOLEAN :
        /\ config' = c
        /\ max_threads' = n
        /\ IF n > 0 /\ ~buildOk
           THEN /\ thread_pool' = None
                /\ bpc' = "new_failed"
           ELSE /\ thread_pool' = (IF n > 0 THEN Some(n) ELSE None)
                /\ bpc' = "constructed"
    /\ UNCHANGED <<vresult, geoVars, procVars, args, image_paths, results, workers,
                   dispatched, bcalls, ret, utilVars>>

\* process_directory up to the parallel section: validation, collection, the
\* empty case, creation of the output directory
ProcessDirectory ==
    /\ bpc = "constructed"
    /\ \E input_dir \in InputDirs, rec \in BOOLEAN, walk \in Walks, mkdirOk \in BOOLEAN :
       \E output_dir \in OutputDirs(input_dir) :
        LET v     == BatchValidatePaths(input_dir, output_dir)
            paths == CollectImagePaths(walk, rec)
        IN  /\ args' = [input_dir |-> input_dir, output_dir |-> output_dir, recursive |-> rec,
                         walked |-> IF v.result.ok THEN walk ELSE <<>>]
            /\ IF ~v.result.ok
               THEN /\ bcalls' = v.calls
                    /\ ret' = [result |-> v.result, stats |-> NoStats]
                    /\ bpc' = "returned"
                    /\ UNCHANGED <<image_paths, results, workers, dispatched>>
               ELSE IF paths = <<>>
               THEN /\ bcalls' = v.calls \o <<"walk(input_dir)">>
                    /\ ret' = [result |-> Ok, stats |-> NoStats]
                    /\ bpc' = "returned"
                    /\ UNCHANGED <<image_paths, results, workers, dispatched>>
               ELSE IF ~mkdirOk
               THEN /\ bcalls' = v.calls \o <<"walk(input_dir)", "create_dir_all(output_dir)">>
                    /\ image_paths' = paths
                    /\ ret' = [result |-> Err("Io", "IO error", NoName), stats |-> NoStats]
                    /\ bpc' = "returned"
                    /\ UNCHANGED <<results, workers, dispatched>>
               ELSE /\ bcalls' = v.calls \o <<"walk(input_dir)", "create_dir_all(output_dir)">>
                    /\ image_paths' = paths
                    /\ results' = [i \in DOMAIN paths |-> NoProc]
                    /\ dispatched' = [i \in DOMAIN paths |-> 0]
                    /\ workers' = [w \in 1 .. PoolSize(thread_pool) |-> 0]
                    /\ bpc' = "parallel"
                    /\ UNCHANGED ret
    /\ UNCHANGED <<cfgVars, geoVars, procVars, max_threads, thread_pool, utilVars>>

\* a pool thread takes an input
WorkerTake(w, i) ==
    /\ bpc = "parallel"
    /\ workers[w] = 0
    /\ Claimable(i)
    /\ workers' = [workers EXCEPT ![w] = i]
    /\ dispatched' = [dispatched EXCEPT ![i] = @ + 1]
    /\ UNCHANGED <<cfgVars, geoVars, procVars, max_threads, thread_pool, bpc, args,
                   image_paths, results, bcalls, ret, utilVars>>

\* the other inputs a pool thread is processing now that write the output path
\* of input i
ConcurrentWriters(i, r) ==
    { j \in DOMAIN image_paths :
        /\ j # i
        /\ \E w \in DOMAIN workers : workers[w] = j
        /\ \E o \in { ProcessSingleImageInBatch(image_paths[j], args.output_dir, config) } :
              o.output = r.output /\ Contains(o.calls, "save_with_format") }

\* a re-stat that can see the file of any call in progress, whatever its path
StatSizesAnyCall(i, r) ==
    {r.written} \cup UNION { 0 .. image_paths[j].out_size :
                               j \in { k \in DOMAIN image_paths :
                                         k # i /\ \E w \in DOMAIN workers : workers[w] = k } }

\* what fs::metadata(output) can report to the call r of input i: the length of
\* the file it wrote, or, while another thread writes the same path, any length
\* up to that of the other's file
StatSizes(i, r) ==
    {r.written} \cup UNION { 0 .. image_paths[j].out_size : j \in ConcurrentWriters(i, r) }

\* a pool thread ends process_single_image_in_batch and leaves the result
WorkerFinish(w) ==
    /\ bpc = "parallel"
    /\ workers[w] # 0
    /\ \E r \in { ProcessSingleImageInBatch(image_paths[workers[w]], args.output_dir, config) } :
          IF r.result.ok
          THEN \E new_size \in StatSizes(workers[w], r) :
                  results' = [results EXCEPT ![workers[w]] =
                                 [r EXCEPT !.stats.total_size_after = new_size]]
          ELSE results' = [results EXCEPT ![workers[w]] = r]
    /\ workers' = [workers EXCEPT ![w] = 0]
    /\ UNCHANGED <<cfgVars, geoVars, procVars, max_threads, thread_pool, bpc, args,
                   image_paths, dispatched, bcalls, ret, utilVars>>

\* process_directory after the parallel section: aggregation and return
AggregateAndReturn ==
    /\ bpc = "parallel"
    /\ AllCollected
    /\ ret' = [result |-> Ok, stats |-> Aggregate(results, NoStats)]
    /\ bpc' = "returned"
    /\ UNCHANGED <<cfgVars, geoVars, procVars, max_threads, thread_pool, args,
                   image_paths, results, workers, dispatched, bcalls, utilVars>>

Take   == \E w \in DOMAIN workers, i \in DOMAIN image_paths : WorkerTake(w, i)
Finish == \E w \in DOMAIN workers : WorkerFinish(w)

InitBatch ==
    /\ IdleCfg
    /\ IdleGeo
    /\ IdleProc
    /\ IdleBatch
    /\ IdleUtil

NextBatch ==
    \/ BatchNew
    \/ ProcessDirectory
    \/ Take
    \/ Finish
    \/ AggregateAndReturn

SpecBatch == InitBatch /\ [][NextBatch]_vars

\* the pool threads run, and the driver goes on once collect() is complete
SpecBatchFair == SpecBatch /\ WF_vars(Take \/ Finish \/ AggregateAndReturn)

(***************************************************************************)
(* utils/mod.rs: generate_output_path.  A generated file name is the tuple *)
(* of the parts it is formatted from, with counter 0 for the name without  *)
(* a counter; the disk is the set of <<directory, file name>> that exist.  *)
(***************************************************************************)
MaxCollisions == 2

\* format!("{}_{}_{}.{}") and format!("{}_{}_{}_{}.{}")
FileName(stem, suffix, timestamp, counter, extension) ==
    <<stem, suffix, timestamp, counter, extension>>

\* Path::new(name).exists(): a relative path is looked up in the working directory
RelativeExists(files, cwd, name) == <<cwd, name>> \in files

\* the while loop of generate_output_path
RECURSIVE AvoidExisting(_, _, _, _, _)
AvoidExisting(g, stem, extension, new_filename, counter) ==
    IF RelativeExists(g.files, g.cwd, new_filename)
    THEN AvoidExisting(g, stem, extension,
                       FileName(stem, g.suffix, g.timestamp, counter, extension), counter + 1)
    ELSE new_filename

\* a stem or extension the input path does not have is "" here
StemOrDefault(input) == IF input.stem = "" THEN "image" ELSE input.stem
ExtensionOrDefault(input) == IF input.ext = "" THEN "jpg" ELSE input.ext

generate_output_path(g) ==
    IF g.output.some
    THEN g.output.path
    ELSE LET stem      == StemOrDefault(g.input)
             extension == ExtensionOrDefault(g.input)
         IN  [dir  |-> g.input.dir,
              name |-> AvoidExisting(g, stem, extension,
                                     FileName(stem, g.suffix, g.timestamp, 0, extension), 1)]

\* the working directory and the directory of the input file
Dirs == {"work", "photos"}

GenInputs == { [dir |-> d, stem |-> st, ext |-> e] : d \in Dirs, st \in {"a", ""}, e \in {"png", ""} }

GenOutputs ==
    { [some |-> FALSE, path |-> [dir |-> "", name |-> ""]],
      [some |-> TRUE, path |-> [dir |-> "out", name |-> "x.png"]] }

\* the generated names that can be on disk: the first MaxCollisions candidates, in
\* either directory
Candidates(input) ==
    { <<d, FileName(StemOrDefault(input), "resized", 1700000000, c, ExtensionOrDefault(input))>> :
        d \in Dirs, c \in 0 .. (MaxCollisions - 1) }

InitOutputPath ==
    /\ IdleCfg
    /\ IdleGeo
    /\ IdleProc
    /\ IdleBatch
    /\ \E input \in GenInputs, output \in GenOutputs, cwd \in Dirs :
       \E files \in SUBSET Candidates(input) :
          gen = [NoGen EXCEPT !.input = input, !.output = output, !.suffix = "resized",
                              !.timestamp = 1700000000, !.cwd = cwd, !.files = files]

GenerateOutputPath ==
    /\ ~gen.called
    /\ gen.suffix # ""
    /\ gen' = [gen EXCEPT !.called = TRUE, !.returned = generate_output_path(gen)]
    /\ UNCHANGED <<cfgVars, geoVars, procVars, batchVars>>

NextOutputPath == GenerateOutputPath

SpecOutputPath == InitOutputPath /\ [][NextOutputPath]_vars

(***************************************************************************)
(* The library as a whole: a run constructs one ImageProcessor and calls   *)
(* process, or constructs one BatchProcessor and calls process_directory.  *)
(***************************************************************************)
Init ==
    /\ IdleCfg
    /\ IdleGeo
    /\ IdleProc
    /\ IdleBatch
    /\ IdleUtil

Next ==
    \/ New
    \/ Process
    \/ ValidatePaths
    \/ SizeGate
    \/ Load
    \/ StripMetadata
    \/ Resize
    \/ SelectFormat
    \/ Encode
    \/ ComputeStats
    \/ BatchNew
    \/ ProcessDirectory
    \/ Take
    \/ Finish
    \/ AggregateAndReturn

Spec == Init /\ [][Next]_vars

(***************************************************************************)
(* Properties.                                                             *)
(***************************************************************************)
\* the inputs whose pipeline call ended in an error
FailedItems == { i \in DOMAIN results : results[i].pc = "done" /\ ~results[i].result.ok }

\* process_directory has returned from a run that passed the directory
\* validation and in which every discovered input has its pipeline outcome
BatchRunComplete ==
    /\ bpc = "returned"
    /\ BatchValidatePaths(args.input_dir, args.output_dir).result.ok
    /\ Len(results) = Len(image_paths)

\* C1: batch failure isolation.  When a batch run passed the directory
\* validation and its N discovered inputs went through the single-item
\* pipeline, k of them failing, process_directory returns Ok, the aggregate has
\* processed_count = N - k and a failure list of length k.
C1_FailureIsolation ==
    BatchRunComplete =>
        /\ ret.result.ok
        /\ ret.stats.processed_count = Len(image_paths) - Cardinality(FailedItems)
        /\ Len(ret.stats.errors) = Cardinality(FailedItems)

\* a batch of three inputs, one of which failed, has returned
C1_Witness ==
    /\ BatchRunComplete
    /\ Len(image_paths) = 3
    /\ Cardinality(FailedItems) = 1
    /\ ret.stats.processed_count = 2

\* C2: exactly-once dispatch.  No input is ever handed to the pipeline twice,
\* and when process_directory returns its aggregate every discovered input was
\* handed to the pipeline exactly once, has its one outcome, and the outcomes
\* counted in the aggregate are as many as the inputs.
C2_ExactlyOnce ==
    /\ \A i \in DOMAIN dispatched : dispatched[i] <= 1
    /\ (bpc = "returned" /\ ret.result.ok) =>
          /\ DOMAIN results = DOMAIN image_paths
          /\ \A i \in DOMAIN image_paths :
                /\ dispatched[i] = 1
                /\ results[i].pc = "done"
                /\ results[i].input.name = image_paths[i].name
                /\ results[i].input.dir = image_paths[i].dir
          /\ ret.stats.processed_count + Len(ret.stats.errors) = Len(image_paths)

\* a run on the default pool (max_threads = 0) returned after three inputs
C2_Witness ==
    /\ bpc = "returned"
    /\ ret.result.ok
    /\ max_threads = 0
    /\ Len(image_paths) = 3
    /\ \A i \in DOMAIN image_paths : dispatched[i] = 1

\* C3: batch termination.  Under fair scheduling of the pool threads, a
\* process_directory call that entered its parallel section returns.
C3_BatchTerminates == (bpc = "parallel") ~> (bpc = "returned")

\* a batch with a failing and a succeeding input has returned
C3_Witness ==
    /\ bpc = "returned"
    /\ FailedItems # {}
    /\ FailedItems # DOMAIN results

\* the steps a complete run of process takes under a config, in order
ExpectedSteps(cfg) ==
    <<"validate_paths", "size_gate", "load">>
    \o (IF cfg.strip_metadata THEN <<"strip">> ELSE <<>>)
    \o (IF cfg.width > 0 \/ cfg.height > 0 \/ F32Positive(cfg.scale) THEN <<"resize">> ELSE <<>>)
    \o <<"format", "encode", "stats">>

IsPrefix(s, t) == Len(s) <= Len(t) /\ \A i \in DOMAIN s : s[i] = t[i]

\* C4: single-item pipeline ordering.  The steps entered so far are always an
\* initial part of validate_paths, size_gate, load, strip, resize, format,
\* encode, stats (strip and resize only when configured); a result exists only
\* when the call has returned; once a step has failed nothing further runs and
\* the returned error stays that first error; encode is invoked only after a
\* successful load and a successful format selection.
C4_PipelineOrder ==
    /\ [](/\ IsPrefix(proc.steps, ExpectedSteps(config))
          /\ (proc.result # NotCalled => proc.pc = "done")
          /\ (Contains(proc.calls, "save_with_format") =>
                /\ Contains(proc.calls, "decode")
                /\ proc.image # <<0, 0>>
                /\ proc.output_format # "None"))
    /\ [][proc.result # NotCalled => proc' = proc]_vars

\* a call that failed at format selection and never reached encode
C4_Witness ==
    /\ proc.pc = "done"
    /\ proc.result.kind = "ProcessingError"
    /\ proc.steps[Len(proc.steps)] = "format"
    /\ ~Contains(proc.calls, "save_with_format")

\* a pipeline call that got as far as load, resize or encode
PipelineRan(p) ==
    \E k \in DOMAIN p.calls : p.calls[k] \in {"load", "resize", "save_with_format"}

\* C5: rejected configs never reach the pipeline.  Whenever load, resize or
\* encode has run, in a process call or for an item of a batch, validate()
\* accepts the config the processor was constructed with.
C5_RejectedConfigNeverRuns ==
    (PipelineRan(proc) \/ \E i \in DOMAIN results : PipelineRan(results[i]))
        => validate(config).ok

\* the configs the specification of validate() names as invalid
Rejected(c) ==
    \/ F32Positive(c.scale) /\ (c.width > 0 \/ c.height > 0)
    \/ c.width > 100000
    \/ c.height > 100000
    \/ c.quality = 0
    \/ c.quality > 100

\* C6: config validation.  validate() returns an InvalidParameter error exactly
\* for the configs with scale together with width or height, a width or height
\* above 100,000, or a quality of 0 or above 100, and Ok for every other one;
\* the call changes neither the config nor any other state.
C6_ConfigValidation ==
    /\ [](vresult # NotCalled =>
            IF Rejected(config)
            THEN ~vresult.ok /\ vresult.kind = "InvalidParameter"
            ELSE vresult = Ok)
    /\ [][/\ config' = config
          /\ geoVars' = geoVars
          /\ procVars' = procVars
          /\ batchVars' = batchVars]_vars

\* a config rejected for its quality of 101 alone
C6_Witness ==
    /\ vresult.kind = "InvalidParameter"
    /\ config.quality = 101
    /\ config.width = 0
    /\ config.height = 0

\* C7: path-traversal rejection precedes all filesystem access.  A process call
\* whose input or output path has a ".." component never gets beyond path
\* validation, has made no filesystem or codec call, and returns SecurityError;
\* a process_directory call whose input or output directory has one returns
\* SecurityError with no filesystem access, nothing collected and nothing
\* processed.
C7_TraversalBeforeFilesystem ==
    /\ (/\ proc.pc \notin {"none", "constructed"}
        /\ (proc.input.kind = "traversal" \/ proc.output.kind = "traversal"))
       => /\ proc.calls = <<>>
          /\ proc.pc \in {"validate_paths", "done"}
          /\ (proc.pc = "done" => proc.result.kind = "SecurityError")
    /\ (/\ bpc \in {"parallel", "returned"}
        /\ (args.input_dir.kind = "traversal" \/ args.output_dir.kind = "traversal"))
       => /\ bpc = "returned"
          /\ ret.result.kind = "SecurityError"
          /\ bcalls = <<>>
          /\ image_paths = <<>>
          /\ results = <<>>

\* process returned for a plain input and an output path with a ".." component
C7_Witness ==
    /\ proc.pc = "done"
    /\ proc.input.kind = "plain"
    /\ proc.output.kind = "traversal"
    /\ proc.result.kind = "SecurityError"

\* the size read at the gate is above the configured limit
Oversize == config.max_file_size.some /\ proc.original_size > config.max_file_size.v

\* the gate was entered and read the file size
GateRead ==
    /\ Contains(proc.steps, "size_gate")
    /\ ~(proc.steps[Len(proc.steps)] = "size_gate" /\ proc.result.kind = "Io")

\* C8: size gate before decode.  load is never invoked for a file above a
\* configured max_file_size; when the gate reads such a size the call fails
\* there with MemoryLimitExceeded; a size equal to or below the limit, or any
\* size without a limit, passes the gate on to load.
C8_SizeGate ==
    /\ Contains(proc.calls, "load") => ~Oversize
    /\ (GateRead /\ Oversize) =>
          /\ proc.pc = "done"
          /\ proc.result.kind = "MemoryLimitExceeded"
          /\ proc.steps[Len(proc.steps)] = "size_gate"
          /\ ~Contains(proc.calls, "decode")
    /\ (GateRead /\ ~Oversize /\ proc.steps[Len(proc.steps)] = "size_gate") =>
          /\ proc.pc = "load"
          /\ proc.result = NotCalled

\* a file one byte above the limit was rejected at the gate
C8_Witness ==
    /\ GateRead
    /\ Oversize
    /\ proc.original_size = SizeLimit + 1
    /\ proc.pc = "done"

\* n / d rounded to the nearest integer, halves away from zero (n >= 0, d > 0)
RoundHalfAway(n, d) == (2 * n + d) \div (2 * d)

\* the fit of ow x oh into the box w x h: both axes times min(w/ow, h/oh)
FitWithin(ow, oh, w, h) ==
    IF w * oh <= h * ow
    THEN <<Max(1, RoundHalfAway(ow * w, ow)), Max(1, RoundHalfAway(oh * w, ow))>>
    ELSE <<Max(1, RoundHalfAway(ow * h, oh)), Max(1, RoundHalfAway(oh * h, oh))>>

\* C9: fit-within-box.  For Absolute(w, h) with w > 0, h > 0 and keep_aspect
\* the computed target is both axes times min(w/orig_w, h/orig_h), rounded half
\* away from zero and at least 1, and it exceeds neither w nor h.
C9_FitWithinBox ==
    (/\ target # <<0, 0>>
     /\ mode.kind = "Absolute"
     /\ mode.w > 0
     /\ mode.h > 0
     /\ keep_aspect)
    => /\ target = FitWithin(image[1], image[2], mode.w, mode.h)
       /\ target[1] <= mode.w
       /\ target[2] <= mode.h

\* orig * p / 100 rounded half away from zero, at least 1, for the f32 p
ScaledExact(orig, p) ==
    Max(1, RoundHalfAway(orig * p.m * Pow2(0 - p.e), 100 * Pow2(p.e)))

\* C10: scale mode.  For Scale(p) with p > 0 the computed target is
\* orig * p / 100 per axis, rounded half away from zero and at least 1, whatever
\* keep_aspect is; for p <= 0 it is the original size.
C10_ScaleMode ==
    (target # <<0, 0>> /\ mode.kind = "Scale")
    => IF F32Positive(mode.scale)
       THEN target = <<ScaledExact(image[1], mode.scale), ScaledExact(image[2], mode.scale)>>
       ELSE target = image

\* the size the resize step of process asks for when it is given the image img
\* and the mode of the fixed precedence
PrecedenceTarget(img) ==
    resize(img, calculate_mode_from_config(config.width, config.height, config.scale),
           keep_aspect).image

\* C11: resize-mode precedence.  The resize step of process leaves the image at
\* the size the Geometry Engine yields for the mode chosen by the precedence
\* Scale, Absolute (both set), Width (width only), Height (height only), no
\* resize, for every keep_aspect value.
C11_ModePrecedence ==
    [][(proc.pc = "resize" /\ proc'.pc = "format")
         => proc'.image = PrecedenceTarget(proc.image)]_vars

\* C12: single-axis modes.  Width(w) returns the original size when w = 0 or
\* w = orig_w and otherwise (w, max(1, round(orig_h * w / orig_w))); Height(h)
\* returns the original size when h = 0 or h = orig_h and otherwise
\* (max(1, round(orig_w * h / orig_h)), h); rounding is half away from zero.
C12_SingleAxis ==
    /\ (target # <<0, 0>> /\ mode.kind = "Width") =>
          IF mode.w = 0 \/ mode.w = image[1]
          THEN target = image
          ELSE target = <<mode.w, Max(1, RoundHalfAway(image[2] * mode.w, image[1]))>>
    /\ (target # <<0, 0>> /\ mode.kind = "Height") =>
          IF mode.h = 0 \/ mode.h = image[2]
          THEN target = image
          ELSE target = <<Max(1, RoundHalfAway(image[1] * mode.h, image[2])), mode.h>>

\* C13: exact stretch.  For Absolute(w, h) other than (0, 0) with keep_aspect
\* false the target width is w, or the original width when w = 0, and the
\* target height is h, or the original height when h = 0.
C13_ExactStretch ==
    (/\ target # <<0, 0>>
     /\ mode.kind = "Absolute"
     /\ ~(mode.w = 0 /\ mode.h = 0)
     /\ ~keep_aspect)
    => /\ target[1] = (IF mode.w > 0 THEN mode.w ELSE image[1])
       /\ target[2] = (IF mode.h > 0 THEN mode.h ELSE image[2])

\* an 11x22 image stretched to width 7 with its height kept
C13_Witness ==
    /\ ~keep_aspect
    /\ image = <<11, 22>>
    /\ mode = Absolute(7, 0)
    /\ target = <<7, 22>>

\* C14: pass-through short-circuit.  For every mode and keep_aspect value,
\* Resizer::resize runs no resample pass and returns the image as it is when
\* the computed target equals the image's size, and runs the resample pass
\* exactly when the target differs in at least one axis.
C14_PassThrough ==
    resized # NoResize =>
        /\ resized.resampled <=> (target # image)
        /\ (target = image => resized.image = image)
        /\ (resized.resampled => resized.image = target)

\* Scale(100) passed an image through without a resample
C14_Witness ==
    /\ resized # NoResize
    /\ ~resized.resampled
    /\ resized.image = image
    /\ mode.kind = "Scale"
    /\ F32Positive(mode.scale)

\* neither width, height nor scale is set
Degenerate(c) == c.width = 0 /\ c.height = 0 /\ ~F32Positive(c.scale)

\* C15: degenerate config.  With width = 0, height = 0 and scale <= 0 process
\* never invokes the resizer and the image that is encoded keeps the size it
\* was decoded with; the resize step is entered exactly when width > 0 or
\* height > 0 or scale > 0.
C15_DegenerateConfig ==
    /\ [](/\ Contains(proc.steps, "format") =>
                (Contains(proc.steps, "resize") <=> ~Degenerate(config))
          /\ Degenerate(config) =>
                /\ ~Contains(proc.calls, "resize")
                /\ ~Contains(proc.calls, "resample"))
    /\ [][(Degenerate(config) /\ proc.image # <<0, 0>>) => proc'.image = proc.image]_vars

\* a call with a negative scale and no width or height encoded the 11x22 image
C15_Witness ==
    /\ Degenerate(config)
    /\ config.scale # F32Zero
    /\ proc.pc = "done"
    /\ proc.result.ok
    /\ proc.image = <<11, 22>>
    /\ Contains(proc.calls, "save_with_format")

\* process_directory was called
DirectoryCalled == bpc \in {"parallel", "returned"}

\* no input was enumerated, the output directory was not created, no item processed
NothingDone ==
    /\ ~Contains(bcalls, "walk(input_dir)")
    /\ ~Contains(bcalls, "create_dir_all(output_dir)")
    /\ image_paths = <<>>
    /\ results = <<>>
    /\ dispatched = <<>>
    /\ workers = <<>>

\* a directory argument has a parent-directory segment
TraversalCase == args.input_dir.kind = "traversal" \/ args.output_dir.kind = "traversal"

\* plain directory arguments that the pre-validation must refuse
InvalidCase ==
    /\ args.input_dir.kind = "plain"
    /\ args.output_dir.kind = "plain"
    /\ \/ ~args.input_dir.exists
       \/ ~args.input_dir.is_dir
       \/ (args.output_dir.exists /\ ~args.output_dir.is_dir)
       \/ args.input_dir = args.output_dir

\* C16: batch pre-validation.  process_directory returns SecurityError for a
\* traversal segment in either directory, and InvalidParameter when the input
\* does not exist or is not a directory, the output exists and is not a
\* directory, or both directories are the same; in each of these cases no input
\* is enumerated, the output directory is not created and no item is processed.
C16_BatchPreValidation ==
    (DirectoryCalled /\ (TraversalCase \/ InvalidCase)) =>
        /\ bpc = "returned"
        /\ ~ret.result.ok
        /\ ret.result.kind = (IF TraversalCase THEN "SecurityError" ELSE "InvalidParameter")
        /\ ret.stats = NoStats
        /\ NothingDone

\* process_directory refused an existing directory given as input and as output
C16_Witness ==
    /\ bpc = "returned"
    /\ args.input_dir = args.output_dir
    /\ args.input_dir.kind = "plain"
    /\ args.input_dir.exists
    /\ args.input_dir.is_dir
    /\ ret.result.kind = "InvalidParameter"

\* an entry of the walk is a file with an extension of the allow-list
MatchesAllowList(e) == e.is_file /\ ToLowercase(e.ext) \in ImageExtensions

\* the directories passed the pre-validation and the walk met no matching file
EmptyBatch ==
    /\ DirectoryCalled
    /\ ~TraversalCase
    /\ BatchValidatePaths(args.input_dir, args.output_dir).result.ok
    /\ \A k \in DOMAIN args.walked : ~MatchesAllowList(args.walked[k])

\* C17: empty batch.  When the input directory holds no file matching the
\* extension allow-list, process_directory returns Ok with processed_count = 0,
\* total_size_before = 0, total_size_after = 0 and no failure, and the
\* single-item pipeline is never invoked.
C17_EmptyBatch ==
    EmptyBatch =>
        /\ bpc = "returned"
        /\ ret.result = Ok
        /\ ret.stats.processed_count = 0
        /\ ret.stats.total_size_before = 0
        /\ ret.stats.total_size_after = 0
        /\ ret.stats.errors = <<>>
        /\ image_paths = <<>>
        /\ results = <<>>
        /\ dispatched = <<>>

\* a batch over a directory with a text file and a subdirectory only
C17_Witness ==
    /\ EmptyBatch
    /\ Len(args.walked) = 2
    /\ bpc = "returned"
    /\ ret.result = Ok

\* the output directory exists as a directory when process_directory returns
OutputDirExists ==
    \/ args.output_dir.exists /\ args.output_dir.is_dir
    \/ Contains(bcalls, "create_dir_all(output_dir)")

\* C18: output directory creation.  After every process_directory call that
\* returns Ok the output directory exists as a directory, the run in which no
\* file matches included.
C18_OutputDirCreated ==
    (bpc = "returned" /\ ret.result.ok) => OutputDirExists

\* the config names a format to encode to
ExplicitFormat(c) == c.format \in {"Jpeg", "Png", "WebP"}

\* C19: format selection.  An explicit config format (Jpeg, Png or WebP) is the
\* format encoded to and the detection is not consulted; with no format or
\* SameAsInput the format is the one detected from the input path, the two
\* configs giving the same outcome for every detection result, and a failed
\* detection fails the item before encode is invoked.
C19_FormatSelection ==
    /\ (Contains(proc.steps, "format") /\ ExplicitFormat(config)) =>
          /\ proc.output_format = config.format
          /\ ~Contains(proc.calls, "detect_format")
    /\ (Contains(proc.steps, "format") /\ ~ExplicitFormat(config)) =>
          /\ Contains(proc.calls, "detect_format")
          /\ proc.output_format \in Detected
          /\ proc.output_format = "None" =>
                /\ proc.pc = "done"
                /\ proc.result.kind = "ProcessingError"
                /\ ~Contains(proc.calls, "save_with_format")
    /\ Contains(proc.calls, "save_with_format") => proc.output_format # "None"
    /\ proc.pc = "format" =>
          \A d \in Detected :
              StepFormat(proc, [config EXCEPT !.format = "None"], d)
                = StepFormat(proc, [config EXCEPT !.format = "SameAsInput"], d)

\* a SameAsInput call encoded to the detected Png
C19_Witness ==
    /\ config.format = "SameAsInput"
    /\ proc.pc = "done"
    /\ proc.result.ok
    /\ proc.output_format = "Png"
    /\ Contains(proc.calls, "detect_format")

\* a decoded size above the loader's limit in width or height
Oversized(d) == d[1] > 100000 \/ d[2] > 100000

\* the call failed at load with MemoryLimitExceeded
DimensionFailure ==
    /\ proc.pc = "done"
    /\ proc.steps # <<>>
    /\ proc.steps[Len(proc.steps)] = "load"
    /\ proc.result.kind = "MemoryLimitExceeded"

\* C20: dimension gate.  A decoded image wider or higher than 100,000 makes the
\* item fail with MemoryLimitExceeded, with max_file_size set or not, and after
\* that failure neither strip, resize nor encode is executed.
C20_DimensionGate ==
    /\ (proc.pc = "load" /\ proc.original_size > 0) =>
          \A d \in DecodedSizes :
              Oversized(d) =>
                  /\ StepLoad(proc, TRUE, d).pc = "done"
                  /\ StepLoad(proc, TRUE, d).result.kind = "MemoryLimitExceeded"
    /\ ~Oversized(proc.image)
    /\ DimensionFailure =>
          /\ Contains(proc.calls, "decode")
          /\ ~Contains(proc.calls, "strip_metadata")
          /\ ~Contains(proc.calls, "resize")
          /\ ~Contains(proc.calls, "save_with_format")
          /\ proc.image = <<0, 0>>

\* a file within the configured size limit failed the dimension gate
C20_Witness ==
    /\ DimensionFailure
    /\ config.max_file_size.some
    /\ proc.original_size = SizeLimit
    /\ config.strip_metadata
    /\ config.width > 0

\* process was called with an input path at which there is no file
MissingInput == proc.pc \notin {"none", "constructed"} /\ ~proc.input.exists

\* C21: missing input.  For every config, a process call whose input path does
\* not exist ends in path validation with an error, InvalidParameter when neither
\* path has ".." in it and SecurityError otherwise; it decodes and encodes
\* nothing, does not write the output file and does not create the output's
\* parent directories.
C21_MissingInput ==
    MissingInput =>
        /\ proc.pc \in {"validate_paths", "done"}
        /\ \A k \in DOMAIN proc.calls : proc.calls[k] = "exists(input)"
        /\ proc.pc = "done" =>
              /\ ~proc.result.ok
              /\ proc.result.kind =
                    (IF ContainsDotDot(proc.input) \/ ContainsDotDot(proc.output)
                     THEN "SecurityError" ELSE "InvalidParameter")

\* process looked for a plain input path, found no file and returned
C21_Witness ==
    /\ MissingInput
    /\ proc.pc = "done"
    /\ proc.input.kind = "plain"
    /\ proc.output.kind = "plain"
    /\ proc.calls = <<"exists(input)">>
    /\ proc.result.kind = "InvalidParameter"
    /\ config.strip_metadata
\* process returned Ok
ProcessOk == proc.pc = "done" /\ proc.result.ok

\* C22: successful single-item result.  Whenever process returns Ok, the output's
\* parent directories were created, the encoder left a file at the output path,
\* and the returned statistics have processed_count = 1, no failure,
\* total_size_before equal to the input size read at the size gate and
\* total_size_after equal to the size of the file the encoder wrote; a target
\* larger than the original makes no difference.
C22_SuccessfulResult ==
    ProcessOk =>
        /\ Contains(proc.calls, "create_dir_all(parent)")
        /\ Contains(proc.calls, "save_with_format")
        /\ proc.written > 0
        /\ proc.stats.processed_count = 1
        /\ proc.stats.errors = <<>>
        /\ proc.stats.total_size_before = proc.original_size
        /\ proc.stats.total_size_after = proc.written

\* a 1x1 image fitted into the 7x13 box, larger than the image, was written
C22_Witness ==
    /\ ProcessOk
    /\ config.width = 7
    /\ config.height = 13
    /\ keep_aspect
    /\ Contains(proc.calls, "resample")
    /\ proc.image[1] > 1
    /\ proc.original_size = 1
    /\ proc.written = SizeLimit + 1
\* C23: itemized failures.  In the aggregate a batch run returns, two different
\* failing inputs never have indistinguishable failure records, as they could
\* not if every record told the path of its input.
C23_ItemizedFailures ==
    (bpc = "returned" /\ ret.result.ok) =>
        \A k1, k2 \in DOMAIN ret.stats.errors :
            k1 # k2 => ret.stats.errors[k1] # ret.stats.errors[k2]
\* C24: auto-generated output path.  generate_output_path returns an explicit
\* output path unchanged; without one it returns a path in the input file's
\* directory that names no existing file, whatever the input directory and the
\* working directory are.
C24_FreshOutputPath ==
    gen.called =>
        /\ gen.output.some => gen.returned = gen.output.path
        /\ ~gen.output.some =>
              /\ gen.returned.dir = gen.input.dir
              /\ <<gen.returned.dir, gen.returned.name>> \notin gen.files
\* a pool thread is inside process_single_image_in_batch
WorkerBusy == \E w \in DOMAIN workers : workers[w] # 0

\* C25: aggregation after the barrier.  While the parallel section of a batch run
\* lasts the aggregate is untouched; a worker that finishes an item leaves its
\* own per-item result and nothing else; and the aggregate is written in one
\* step of the driver, taken when no worker is processing and every input has
\* its result (or on a return before the parallel section).
C25_AggregateAfterBarrier ==
    /\ [](bpc = "parallel" => ret = NoRet)
    /\ [][(bpc = "parallel" /\ WorkerBusy /\ workers' # workers) =>
               /\ ret' = ret
               /\ \A i \in DOMAIN results :
                     results'[i] # results[i] => \E w \in DOMAIN workers : workers[w] = i]_vars
    /\ [][(bpc = "parallel" /\ ret' # ret) =>
               /\ ~WorkerBusy
               /\ \A i \in DOMAIN results : results[i].pc = "done"
               /\ results' = results
               /\ ret'.stats = Aggregate(results, NoStats)]_vars

\* a run on two pool threads has aggregated three results, failures among them
C25_Witness ==
    /\ bpc = "returned"
    /\ thread_pool = Some(2)
    /\ Len(results) = 3
    /\ ret.stats.processed_count = 1
    /\ Len(ret.stats.errors) = 2
\* the inputs handed to the pipeline whose call has not returned
InFlight == { i \in DOMAIN results : dispatched[i] > 0 /\ results[i].pc # "done" }

\* a batch run on a dedicated pool is in its parallel section
DedicatedRun == bpc = "parallel" /\ max_threads > 0

\* C26: bounded concurrency.  In a batch run built with max_threads = N > 0, at
\* most N pipeline invocations are in flight at any moment, every invocation in
\* flight is held by one pool thread and a pool thread holds one at most; a
\* thread gives up its item only by finishing it, and takes one only when it
\* holds none; N and the pool do not change during the run.
C26_BoundedConcurrency ==
    /\ [](DedicatedRun =>
            /\ Cardinality(InFlight) <= max_threads
            /\ Cardinality(DOMAIN workers) = max_threads
            /\ \A i \in InFlight : Cardinality({ w \in DOMAIN workers : workers[w] = i }) = 1
            /\ \A w \in DOMAIN workers : workers[w] # 0 => workers[w] \in InFlight)
    /\ [][DedicatedRun =>
            /\ max_threads' = max_threads
            /\ thread_pool' = thread_pool
            /\ DOMAIN workers' = DOMAIN workers
            /\ \A w \in DOMAIN workers :
                  (workers[w] # 0 /\ workers'[w] # workers[w]) =>
                      /\ workers'[w] = 0
                      /\ results'[workers[w]].pc = "done"]_vars

\* both threads of a pool of two are busy while a third input waits
C26_Witness ==
    /\ DedicatedRun
    /\ max_threads = 2
    /\ Cardinality(InFlight) = 2
    /\ \E i \in DOMAIN dispatched : dispatched[i] = 0
\* two different collected inputs with the same file name
SameName(i, j) == i # j /\ image_paths[i].name = image_paths[j].name

\* C27: flat output mapping and basename collisions.  Every input the pipeline
\* was run on, at any depth, was given output_dir joined with its file name as
\* output path; in a returned run two inputs that share a file name were both
\* dispatched, to the same output path, each has the outcome its own file
\* gives, and processed_count counts every successful input, these included.
C27_FlatOutputMapping ==
    /\ \A i \in DOMAIN results :
          results[i].pc = "done" =>
              /\ results[i].output.dir = args.output_dir.name
              /\ results[i].output.name = image_paths[i].name
    /\ (bpc = "returned" /\ ret.result.ok) =>
          /\ \A i, j \in DOMAIN results :
                SameName(i, j) =>
                    /\ dispatched[i] = 1
                    /\ dispatched[j] = 1
                    /\ results[i].output = results[j].output
                    /\ results[i].result =
                          ProcessSingleImageInBatch(image_paths[i], args.output_dir, config).result
          /\ ret.stats.processed_count =
                Cardinality({ i \in DOMAIN results : results[i].result.ok })

\* a returned run counted two inputs that were written to one output path; the
\* output bytes it reports are fewer than the two files' because one call read
\* the size while the other was writing
C27_Witness ==
    /\ bpc = "returned"
    /\ ret.result.ok
    /\ Len(image_paths) = 2
    /\ SameName(1, 2)
    /\ image_paths[2].depth = 2
    /\ ret.stats.processed_count = 2
    /\ ret.stats.total_size_after < image_paths[1].out_size + image_paths[2].out_size
\* the path a finished pipeline call read and the path it wrote
InputPath(p)  == <<p.input.dir, p.input.name>>
OutputPath(p) == <<p.output.dir, p.output.name>>

\* C28: no read/write aliasing in a batch.  In every batch run that passed the
\* directory pre-validation, recursive or not and with the output directory
\* inside the input directory or not, no item's output path is the input path of
\* an item of the same run.
C28_NoAliasing ==
    \A i, j \in DOMAIN results :
        (results[i].pc = "done" /\ results[j].pc = "done") =>
            OutputPath(results[i]) # InputPath(results[j])
\* the collected inputs have pairwise different file names
DistinctNames == \A i, j \in DOMAIN image_paths : ~SameName(i, j)

\* the outcome of each collected input taken alone, in the order of collection
OwnOutcomes ==
    [i \in DOMAIN image_paths |->
        ProcessSingleImageInBatch(image_paths[i], args.output_dir, config)]

\* the failure records of an aggregate, as a set
FailureSet(stats) == { stats.errors[k] : k \in DOMAIN stats.errors }

\* C29: schedule-independence of the aggregate.  When the collected inputs have
\* pairwise different file names, the aggregate process_directory returns is
\* determined by the inputs alone: its counts, byte totals and set of failure
\* records are those of folding each input's own outcome, whatever the
\* interleaving of the pool threads and their number.
C29_ScheduleIndependence ==
    (bpc = "returned" /\ ret.result.ok /\ image_paths # <<>> /\ DistinctNames) =>
        \E expected \in { Aggregate(OwnOutcomes, NoStats) } :
            /\ ret.stats.processed_count = expected.processed_count
            /\ ret.stats.total_size_before = expected.total_size_before
            /\ ret.stats.total_size_after = expected.total_size_after
            /\ FailureSet(ret.stats) = FailureSet(expected)

\* three inputs of different names, processed by a pool of one thread: two
\* written, one failed
C29_Witness ==
    /\ bpc = "returned"
    /\ ret.result.ok
    /\ DistinctNames
    /\ Len(image_paths) = 3
    /\ max_threads = 1
    /\ ret.stats.processed_count = 2
    /\ ret.stats.total_size_after = 3
    /\ Cardinality(FailureSet(ret.stats)) = 1
\* the entries of the walked tree that the claim says are dispatched
Enumerated ==
    { e \in { args.walked[k] : k \in DOMAIN args.walked } :
        /\ MatchesAllowList(e)
        /\ (args.recursive \/ e.depth = 1) }

\* the inputs that were handed to the pipeline
Dispatched == { image_paths[i] : i \in { k \in DOMAIN dispatched : dispatched[k] > 0 } }

\* C30: input enumeration.  Only regular files of the walked tree with an
\* extension of the allow-list, compared without regard to case, are ever
\* dispatched, direct children only unless recursive is set; and a run that
\* returns Ok has dispatched every one of them.  Directories, files without
\* extension and files with another extension are never dispatched.
C30_InputEnumeration ==
    /\ Dispatched \subseteq Enumerated
    /\ \A e \in Dispatched : e.is_file /\ e.ext # "" /\ e.ext # "txt"
    /\ (bpc = "returned" /\ ret.result.ok) => Dispatched = Enumerated

\* a flat run over a tree with an upper-case extension, a file without extension
\* and a subdirectory has dispatched the one direct child that matches
C30_Witness ==
    /\ bpc = "returned"
    /\ ret.result.ok
    /\ ~args.recursive
    /\ args.walked = <<EntryBig, EntryReadme, EntrySubdir>>
    /\ Dispatched = {EntryBig}
\* C31: SecurityError only for traversal segments.  process returns
\* SecurityError only when its input or output path has a ".." component, and
\* process_directory only when one of its directories has; two consecutive dots
\* inside a file or directory name are not rejected with SecurityError.
C31_SecurityErrorOnlyForTraversal ==
    /\ (proc.pc = "done" /\ proc.result.kind = "SecurityError") =>
          (proc.input.kind = "traversal" \/ proc.output.kind = "traversal")
    /\ (bpc = "returned" /\ ret.result.kind = "SecurityError") =>
          (args.input_dir.kind = "traversal" \/ args.output_dir.kind = "traversal")

\* C32: with keep_aspect = true, the target computed for Absolute(w, 0), w > 0,
\* is the target computed for Width(w), and the target computed for
\* Absolute(0, h), h > 0, is the target computed for Height(h), for every
\* original size with both axes >= 1.
SingleDimension ==
    /\ keep_aspect
    /\ mode.kind = "Absolute"
    /\ (mode.w = 0) # (mode.h = 0)
    /\ target # <<0, 0>>

FailedInOrder ==
    LET Failed(i) == ~results[i].result.ok
    IN  SelectSeq([i \in 1 .. Len(results) |-> i], Failed)

\* the failure record the aggregation writes for a failed outcome
FailureRecord(r) == <<"Processing error", <<r.result.kind, r.result.msg, r.result.detail>> >>

\* C33: failure-record order.  In the aggregate a batch run returns, the
\* failure records stand in the order of their inputs in the list of collected
\* paths, whatever the order in which the pool threads finished.
C33_FailureRecordOrder ==
    (bpc = "returned" /\ ret.result.ok /\ image_paths # <<>>) =>
        /\ Len(ret.stats.errors) = Len(FailedInOrder)
        /\ \A k \in DOMAIN ret.stats.errors :
              ret.stats.errors[k] = FailureRecord(results[FailedInOrder[k]])

\* a pool of two threads returned an aggregate with two different failure
\* records, the inputs between and after them written
C33_Witness ==
    /\ bpc = "returned"
    /\ ret.result.ok
    /\ Len(workers) = 2
    /\ Len(image_paths) = 3
    /\ Len(ret.stats.errors) = 2
    /\ ret.stats.errors[1] # ret.stats.errors[2]
    /\ ret.stats.processed_count = 1

\* the config from which the resize step of process_single builds mode m
ConfigFor(m, keep) ==
    [DefaultConfig EXCEPT !.width = m.w, !.height = m.h, !.scale = m.scale,
                          !.keep_aspect = keep]

\* the decoded size passes the loader's dimension gate
PassedGate(dims) ==
    /\ dims[1] \in 1 .. LoaderMaxDimensions[1]
    /\ dims[2] \in 1 .. LoaderMaxDimensions[2]

\* C34: bounded resize target.  For a config validate() accepts and a decoded
\* image that passed the dimension gate, the target the resize step computes
\* is at most 100,000 in each axis.
C34_BoundedResizeTarget ==
    ( /\ mode.kind \in {"Absolute", "Scale"}
      /\ validate(ConfigFor(mode, keep_aspect)).ok
      /\ PassedGate(image)
      /\ target # <<0, 0>> ) =>
        /\ target[1] <= MaxDimension
        /\ target[2] <= MaxDimension

\* C35: idempotent target computation.  For every Absolute(w, h), one zero
\* component included, and both keep_aspect values, the target computed from
\* the already computed target is that target again.
C35_IdempotentTarget ==
    (mode.kind = "Absolute" /\ target # <<0, 0>>) =>
        calculate_dimensions(target[1], target[2], mode, keep_aspect) = target

\* C36: encoder quality range.  The quality the Compressor holds and passes to
\* the encoder is within 1..100 for every config, validated or not: the
\* configured quality when that is within 1..100, the nearest bound otherwise.
C36_EncoderQuality ==
    proc.pc # "none" =>
        /\ compressor \in 1 .. 100
        /\ config.quality \in 1 .. 100 => compressor = config.quality
        /\ config.quality < 1 => compressor = 1
        /\ config.quality > 100 => compressor = 100

\* a processor built from a config of quality 255, which validate() rejects,
\* has called the encoder and returned Ok
C36_Witness ==
    /\ config.quality = 255
    /\ ~validate(config).ok
    /\ compressor = 100
    /\ Contains(proc.calls, "save_with_format")
    /\ ProcessOk
====
